---- MODULE Spec2Model ----
(***************************************************************************)
(* html-purifier: purifier(input, settings) runs lol_html's rewrite_str   *)
(* over the input with one element handler on "*" and one comment handler *)
(* on "*" (src/src/lib.rs).                                              *)
(*                                                                         *)
(* An HTML string is a sequence of atoms.  An atom is one character       *)
(* ("<", ">", "/", "!", "-", " ", "=", the double quote, "&") or an       *)
(* indivisible run of ASCII letters ("b", "script", "href", "B", ...).    *)
(* The rewriter is streaming: each step lexes one lexeme at the cursor,   *)
(* runs the handler registered for it and appends what is left of the     *)
(* lexeme to the output.                                                   *)
(***************************************************************************)
EXTENDS Naturals, Sequences, FiniteSets

VARIABLES
    settings,   \* the Settings value passed to purifier
    input,      \* the input of the running call
    pos,        \* the lexer's cursor in input
    output,     \* what the rewriter has written so far
    stack,      \* the selector matching VM's stack of open elements
    text_type,  \* the lexer's text type: "Data" or the element whose content is text
    guard,      \* the ambiguity guard of the strict tree builder simulator
    pc,         \* "run", "done" (purifier returned output), "panic" (unwrap of an Err)
    pass,       \* 1: purifier(x, S); 2: purifier(purifier(x, S), S)
    first,      \* the result of pass 1
    log         \* one record per lexeme handled in this pass

vars == <<settings, input, pos, output, stack, text_type, guard, pc,
          pass, first, log>>

(***************************************************************************)
(* Characters                                                              *)
(***************************************************************************)
DQ == "\""

Special == {"<", ">", "/", "!", "-", " ", "=", DQ, "&"}

IsAlpha(c) == c \notin Special

\* ASCII lowercase of an atom (Element::tag_name and Attribute::name
\* report names in lowercase).
Lower(c) ==
    CASE c = "B" -> "b"
      [] c = "A" -> "a"
      [] c = "HREF" -> "href"
      [] c = "SCRIPT" -> "script"
      [] OTHER -> c

LowerName(n) == [i \in 1..Len(n) |-> Lower(n[i])]

Min(S) == CHOOSE x \in S : \A y \in S : x <= y

\* The first position >= i of s holding a character of C; Len(s)+1 if none.
FindFirst(s, i, C) ==
    LET J == {j \in i..Len(s) : s[j] \in C}
    IN IF J = {} THEN Len(s) + 1 ELSE Min(J)

\* The first position >= i of s not holding a space; Len(s)+1 if none.
SkipSpace(s, i) ==
    LET J == {j \in i..Len(s) : s[j] # " "}
    IN IF J = {} THEN Len(s) + 1 ELSE Min(J)

At(s, i) == IF i >= 1 /\ i <= Len(s) THEN s[i] ELSE "EOF"

(***************************************************************************)
(* Lexer: attributes of a tag.  ParseAttrs starts in the "before attribute *)
(* name" state at position j and returns the attributes, the self-closing  *)
(* flag, the position after ">" and ok = FALSE when the input ends inside  *)
(* the tag.                                                                *)
(***************************************************************************)
RECURSIVE ParseAttrs(_, _, _)
ParseAttrs(s, j, attrs) ==
    IF j > Len(s) THEN [attrs |-> attrs, self_closing |-> FALSE, end |-> j, ok |-> FALSE]
    ELSE IF s[j] = " " THEN ParseAttrs(s, j + 1, attrs)
    ELSE IF s[j] = ">" THEN [attrs |-> attrs, self_closing |-> FALSE, end |-> j + 1, ok |-> TRUE]
    ELSE IF s[j] = "/" THEN
        IF At(s, j + 1) = ">"
        THEN [attrs |-> attrs, self_closing |-> TRUE, end |-> j + 2, ok |-> TRUE]
        ELSE ParseAttrs(s, j + 1, attrs)
    ELSE
        LET nameEnd == FindFirst(s, j + 1, {" ", "/", ">", "="})
            name    == SubSeq(s, j, nameEnd - 1)
            k       == SkipSpace(s, nameEnd)
        IN IF At(s, k) = "="
           THEN LET v == SkipSpace(s, k + 1)
                IN IF v > Len(s)
                   THEN [attrs |-> attrs, self_closing |-> FALSE, end |-> v, ok |-> FALSE]
                   ELSE IF s[v] = DQ
                   THEN LET close == FindFirst(s, v + 1, {DQ})
                        IN IF close > Len(s)
                           THEN [attrs |-> attrs, self_closing |-> FALSE, end |-> close, ok |-> FALSE]
                           ELSE ParseAttrs(s, close + 1,
                                    Append(attrs, [name  |-> name,
                                                   value |-> SubSeq(s, v + 1, close - 1),
                                                   raw   |-> SubSeq(s, j, close)]))
                   ELSE IF s[v] = ">"
                   THEN [attrs |-> Append(attrs, [name |-> name, value |-> <<>>,
                                                  raw |-> SubSeq(s, j, v - 1)]),
                         self_closing |-> FALSE, end |-> v + 1, ok |-> TRUE]
                   ELSE LET vend == FindFirst(s, v, {" ", ">"})
                        IN ParseAttrs(s, vend,
                                Append(attrs, [name  |-> name,
                                               value |-> SubSeq(s, v, vend - 1),
                                               raw   |-> SubSeq(s, j, vend - 1)]))
           ELSE ParseAttrs(s, k,
                    Append(attrs, [name |-> name, value |-> <<>>,
                                   raw |-> SubSeq(s, j, nameEnd - 1)]))

(***************************************************************************)
(* Lexer: comments.  CommentEnd scans from position j in state st and      *)
(* returns the position after the comment (Len(s)+1 when the input ends    *)
(* inside it: the comment is emitted all the same).                        *)
(***************************************************************************)
RECURSIVE CommentEnd(_, _, _)
CommentEnd(s, j, st) ==
    IF j > Len(s) THEN j
    ELSE CASE st = "Start" ->
                IF s[j] = "-" THEN CommentEnd(s, j + 1, "StartDash")
                ELSE IF s[j] = ">" THEN j + 1
                ELSE CommentEnd(s, j + 1, "Comment")
           [] st = "StartDash" ->
                IF s[j] = "-" THEN CommentEnd(s, j + 1, "End")
                ELSE IF s[j] = ">" THEN j + 1
                ELSE CommentEnd(s, j + 1, "Comment")
           [] st = "Comment" ->
                IF s[j] = "-" THEN CommentEnd(s, j + 1, "EndDash")
                ELSE CommentEnd(s, j + 1, "Comment")
           [] st = "EndDash" ->
                IF s[j] = "-" THEN CommentEnd(s, j + 1, "End")
                ELSE CommentEnd(s, j + 1, "Comment")
           [] st = "End" ->
                IF s[j] = ">" THEN j + 1
                ELSE IF s[j] = "!" THEN CommentEnd(s, j + 1, "EndBang")
                ELSE IF s[j] = "-" THEN CommentEnd(s, j + 1, "End")
                ELSE CommentEnd(s, j + 1, "Comment")
           [] OTHER -> \* "EndBang"
                IF s[j] = "-" THEN CommentEnd(s, j + 1, "EndDash")
                ELSE IF s[j] = ">" THEN j + 1
                ELSE CommentEnd(s, j + 1, "Comment")

\* A bogus comment ("<!x", "</ ", ...) runs to the first ">" or the end.
BogusCommentEnd(s, j) ==
    LET g == FindFirst(s, j, {">"}) IN IF g > Len(s) THEN g ELSE g + 1

(***************************************************************************)
(* Lexer: text of <script>, <style>, ... elements                          *)
(***************************************************************************)
\* "</name" followed by a space, "/" or ">" at position j: the appropriate
\* end tag of the element whose content is text.
IsAppropriateEndTag(s, j, name) ==
    /\ At(s, j) = "<"
    /\ At(s, j + 1) = "/"
    /\ LET d == FindFirst(s, j + 2, {" ", "/", ">"})
       IN /\ d <= Len(s)
          /\ LowerName(SubSeq(s, j + 2, d - 1)) = name

\* "<name" with letters only, followed by a space, "/" or ">", at position j.
TagLikeAt(s, j, slash) ==
    LET b == IF slash THEN j + 2 ELSE j + 1
        d == FindFirst(s, b, {" ", "/", ">"})
    IN /\ At(s, j) = "<"
       /\ slash => At(s, j + 1) = "/"
       /\ d <= Len(s)
       /\ d > b
       /\ \A i \in b..(d - 1) : IsAlpha(s[i])

DashDashGt(s, j) == At(s, j) = ">" /\ At(s, j - 1) = "-" /\ At(s, j - 2) = "-"

\* RCDATA and RAWTEXT: the text ends at the first appropriate end tag.
RawTextEnd(s, i, name) ==
    LET J == {j \in i..Len(s) : IsAppropriateEndTag(s, j, name)}
    IN IF J = {} THEN Len(s) + 1 ELSE Min(J)

\* Script data, with its escaped (esc = 1, after "<!--") and double escaped
\* (esc = 2, after "<script" inside "<!--") states.
RECURSIVE ScriptDataEnd(_, _, _)
ScriptDataEnd(s, j, esc) ==
    IF j > Len(s) THEN j
    ELSE IF esc = 0 THEN
        IF IsAppropriateEndTag(s, j, <<"script">>) THEN j
        ELSE IF s[j] = "<" /\ At(s, j + 1) = "!" /\ At(s, j + 2) = "-" /\ At(s, j + 3) = "-"
        THEN ScriptDataEnd(s, j + 4, 1)
        ELSE ScriptDataEnd(s, j + 1, 0)
    ELSE IF esc = 1 THEN
        IF DashDashGt(s, j) THEN ScriptDataEnd(s, j + 1, 0)
        ELSE IF IsAppropriateEndTag(s, j, <<"script">>) THEN j
        ELSE IF TagLikeAt(s, j, FALSE)
        THEN LET d == FindFirst(s, j + 1, {" ", "/", ">"})
             IN ScriptDataEnd(s, d + 1,
                    IF LowerName(SubSeq(s, j + 1, d - 1)) = <<"script">> THEN 2 ELSE 1)
        ELSE ScriptDataEnd(s, j + 1, 1)
    ELSE
        IF DashDashGt(s, j) THEN ScriptDataEnd(s, j + 1, 0)
        ELSE IF TagLikeAt(s, j, TRUE)
        THEN LET d == FindFirst(s, j + 2, {" ", "/", ">"})
             IN ScriptDataEnd(s, d + 1,
                    IF LowerName(SubSeq(s, j + 2, d - 1)) = <<"script">> THEN 1 ELSE 2)
        ELSE ScriptDataEnd(s, j + 1, 2)

(***************************************************************************)
(* Lexer: one lexeme.  tt is the text type the tree builder simulator set  *)
(* after the last start tag: "Data", or the lowercase name of the element  *)
(* whose content is text.                                                  *)
(***************************************************************************)
ScriptDataElements == {"script"}

RawTextElements == {"style", "iframe", "xmp", "noembed", "noframes", "noscript",
                    "title", "textarea"}

PlainTextElements == {"plaintext"}

TextTypeFor(lname) ==
    IF Len(lname) = 1 /\ lname[1] \in
           (ScriptDataElements \cup RawTextElements \cup PlainTextElements)
    THEN lname[1] ELSE "Data"

Lexeme(kind, s, i, e, name, attrs, sc) ==
    [kind |-> kind, end |-> e, raw |-> SubSeq(s, i, e - 1), name |-> name,
     attrs |-> attrs, self_closing |-> sc]

TextLexeme(s, i, e) == Lexeme("Text", s, i, e, <<>>, <<>>, FALSE)

CommentLexeme(s, i, e) == Lexeme("Comment", s, i, e, <<>>, <<>>, FALSE)

\* A start tag (i at "<") or an end tag (i at "<", then "/"); the whole rest
\* of the input is raw text when the input ends inside the tag.
TagLexemeOf(kind, s, i, name, a) ==
    IF a.ok
    THEN Lexeme(kind, s, i, a.end, name, a.attrs, a.self_closing)
    ELSE TextLexeme(s, i, Len(s) + 1)

TagLexemeFrom(kind, s, i, b, nameEnd) ==
    TagLexemeOf(kind, s, i, SubSeq(s, b, nameEnd - 1), ParseAttrs(s, nameEnd, <<>>))

TagLexeme(kind, s, i) ==
    TagLexemeFrom(kind, s, i, IF kind = "EndTag" THEN i + 2 ELSE i + 1,
                  FindFirst(s, IF kind = "EndTag" THEN i + 2 ELSE i + 1, {" ", "/", ">"}))

DataLexeme(s, i) ==
    LET c2 == At(s, i + 1)
        c3 == At(s, i + 2)
    IN IF s[i] # "<" THEN TextLexeme(s, i, FindFirst(s, i + 1, {"<"}))
       ELSE IF c2 = "EOF" THEN TextLexeme(s, i, i + 1)
       ELSE IF IsAlpha(c2) THEN TagLexeme("StartTag", s, i)
       ELSE IF c2 = "/" THEN
            IF c3 = "EOF" THEN TextLexeme(s, i, i + 2)
            ELSE IF c3 = ">" THEN TextLexeme(s, i, i + 3)
            ELSE IF IsAlpha(c3) THEN TagLexeme("EndTag", s, i)
            ELSE CommentLexeme(s, i, BogusCommentEnd(s, i + 2))
       ELSE IF c2 = "!" THEN
            IF c3 = "-" /\ At(s, i + 3) = "-"
            THEN CommentLexeme(s, i, CommentEnd(s, i + 4, "Start"))
            ELSE CommentLexeme(s, i, BogusCommentEnd(s, i + 2))
       ELSE TextLexeme(s, i, FindFirst(s, i + 1, {"<"}))

\* Where the text of a <script>, <style>, ... element ends.
TextEnd(s, i, tt) ==
    IF tt \in PlainTextElements THEN Len(s) + 1
    ELSE IF tt \in ScriptDataElements THEN ScriptDataEnd(s, i, 0)
    ELSE RawTextEnd(s, i, <<tt>>)

NextLexeme(s, i, tt) ==
    IF tt = "Data" THEN DataLexeme(s, i)
    ELSE IF TextEnd(s, i, tt) > i THEN TextLexeme(s, i, TextEnd(s, i, tt))
    ELSE DataLexeme(s, i)

(***************************************************************************)
(* Settings                                                                *)
(***************************************************************************)
AllowedElement(name, attributes) == [name |-> name, attributes |-> attributes]

\* Settings::default()
DefaultSettings ==
    [allowed |-> <<
        AllowedElement(<<"div">>, <<>>),
        AllowedElement(<<"b">>, <<>>),
        AllowedElement(<<"strong">>, <<>>),
        AllowedElement(<<"i">>, <<>>),
        AllowedElement(<<"em">>, <<>>),
        AllowedElement(<<"u">>, <<>>),
        AllowedElement(<<"a">>, << <<"href">>, <<"title">> >>),
        AllowedElement(<<"ul">>, <<>>),
        AllowedElement(<<"ol">>, <<>>),
        AllowedElement(<<"li">>, <<>>),
        AllowedElement(<<"p">>, << <<"style">> >>),
        AllowedElement(<<"br">>, <<>>),
        AllowedElement(<<"span">>, << <<"style">> >>),
        AllowedElement(<<"img">>, << <<"width">>, <<"height">>, <<"alt">>, <<"src">> >>)
     >>,
     remove_comments |-> TRUE]

Contains(seq, x) == \E i \in 1..Len(seq) : seq[i] = x

(***************************************************************************)
(* The element handler (the closure element_handler of purifier)           *)
(***************************************************************************)
\* A lookup that also lowers the allow-list's names.
find_ignoring_case(allowed, tag_name) ==
    LET I == {i \in 1..Len(allowed) : LowerName(allowed[i].name) = tag_name}
    IN IF I = {} THEN 0 ELSE Min(I)

\* settings.allowed.iter().find(|e| e.name.eq(&el.tag_name())): the index of
\* the first entry whose name is the element's lowercase tag name, 0 if none.
find(allowed, tag_name) ==
    LET I == {i \in 1..Len(allowed) : allowed[i].name = tag_name}
    IN IF I = {} THEN 0 ELSE Min(I)

\* A filter that tests the attribute's name as written in the input.
RECURSIVE remove_attributes_as_written(_, _)
remove_attributes_as_written(attrs, allowed_attrs) ==
    IF attrs = <<>> THEN <<>>
    ELSE (IF Contains(allowed_attrs, Head(attrs).name) THEN <<>>
          ELSE <<LowerName(Head(attrs).name)>>)
         \o remove_attributes_as_written(Tail(attrs), allowed_attrs)

\* The names the handler collects: those of the attributes the entry does
\* not list, in the element's order.
RECURSIVE remove_attributes(_, _)
remove_attributes(attrs, allowed_attrs) ==
    IF attrs = <<>> THEN <<>>
    ELSE LET n == LowerName(Head(attrs).name)
         IN (IF Contains(allowed_attrs, n) THEN <<>> ELSE <<n>>)
            \o remove_attributes(Tail(attrs), allowed_attrs)

\* Element::remove_attribute: drops the first attribute of that name.
remove_attribute(attrs, name) ==
    LET I == {i \in 1..Len(attrs) : LowerName(attrs[i].name) = name}
    IN IF I = {} THEN attrs
       ELSE LET k == Min(I)
            IN SubSeq(attrs, 1, k - 1) \o SubSeq(attrs, k + 1, Len(attrs))

RECURSIVE RemoveAll(_, _)
RemoveAll(attrs, names) ==
    IF names = <<>> THEN attrs
    ELSE RemoveAll(remove_attribute(attrs, Head(names)), Tail(names))

\* A handler that calls Element::remove on the elements it does not allow.
element_handler_remove(S, lex) ==
    IF find(S.allowed, LowerName(lex.name)) # 0
    THEN [removed |-> FALSE, remove_content |-> FALSE,
          attrs   |-> RemoveAll(lex.attrs,
                         remove_attributes(lex.attrs,
                             S.allowed[find(S.allowed, LowerName(lex.name))].attributes))]
    ELSE [removed |-> TRUE, remove_content |-> TRUE, attrs |-> lex.attrs]

\* What the handler does to an element: an allowed one keeps its tags and
\* loses the attributes its entry does not list; any other one gets
\* remove_and_keep_content(), which removes its start tag and its end tag
\* and leaves its content (Element::remove would remove the content too).
element_handler(S, lex) ==
    LET k == find(S.allowed, LowerName(lex.name))
    IN IF k # 0
       THEN [removed |-> FALSE, remove_content |-> FALSE,
             attrs   |-> RemoveAll(lex.attrs, remove_attributes(lex.attrs, S.allowed[k].attributes))]
       ELSE [removed |-> TRUE, remove_content |-> FALSE, attrs |-> lex.attrs]

\* The comment handler: c.remove() iff settings.remove_comments.
comment_handler(S) == S.remove_comments

(***************************************************************************)
(* Serialisation of a start tag whose attributes were changed              *)
(***************************************************************************)
RECURSIVE SerializeAttrs(_)
SerializeAttrs(attrs) ==
    IF attrs = <<>> THEN <<>>
    ELSE <<" ">> \o Head(attrs).raw \o SerializeAttrs(Tail(attrs))

SerializeStartTag(name, attrs, self_closing) ==
    <<"<">> \o name \o SerializeAttrs(attrs)
        \o (IF self_closing THEN <<" ", "/", ">">> ELSE <<">">>)

\* A start tag the handler kept: its source bytes when nothing was removed.
StartTagOutput(lex, kept) ==
    IF kept = lex.attrs THEN lex.raw
    ELSE SerializeStartTag(lex.name, kept, lex.self_closing)

(***************************************************************************)
(* The rewriter's bookkeeping                                              *)
(***************************************************************************)
VoidElements == {"area", "base", "basefont", "bgsound", "br", "col", "embed",
                 "hr", "img", "input", "keygen", "link", "meta", "param",
                 "source", "track", "wbr"}

IsVoid(lname) == Len(lname) = 1 /\ lname[1] \in VoidElements

\* Stack::pop_up_to: the index of the topmost open element of that name, 0 if none.
MatchIndex(stk, lname) ==
    LET I == {i \in 1..Len(stk) : stk[i].local_name = lname}
    IN IF I = {} THEN 0 ELSE CHOOSE i \in I : \A j \in I : j <= i

\* Some popped element left an end tag handler (its start tag was removed
\* with remove_and_keep_content): every such handler runs on this end tag.
EndTagRemoved(popped) == \E i \in 1..Len(popped) : popped[i].end_tag_handler

\* An open element whose content is removed: every token inside it is dropped.
RemovedContent(stk) == \E i \in 1..Len(stk) : stk[i].remove_content

\* The ambiguity guard: text-type-switching tags inside <select> or
\* <frameset> make rewrite_str return Err(ParsingAmbiguity) (strict = true).
TextTypeSwitch == {"textarea", "title", "plaintext", "script", "style", "iframe",
                   "xmp", "noembed", "noframes", "noscript"}

GuardDefault == [st |-> "Default", depth |-> 0]

Ambiguous(g, lname) ==
    /\ Len(lname) = 1
    /\ lname[1] \in TextTypeSwitch
    /\ \/ g.st = "InSelect" /\ lname[1] \notin {"select", "textarea", "input", "keygen", "template", "script"}
       \/ g.st = "InTemplateInSelect" /\ lname[1] # "template"
       \/ g.st = "InOrAfterFrameset" /\ lname[1] # "noframes"

TrackStartTag(g, lname) ==
    LET n == IF Len(lname) = 1 THEN lname[1] ELSE ""
    IN CASE g.st = "Default" /\ n = "select" -> [st |-> "InSelect", depth |-> 0]
         [] g.st = "Default" /\ n = "frameset" -> [st |-> "InOrAfterFrameset", depth |-> 0]
         [] g.st = "InSelect" /\ n \in {"select", "textarea", "input", "keygen"} -> GuardDefault
         [] g.st = "InSelect" /\ n = "template" -> [st |-> "InTemplateInSelect", depth |-> 1]
         [] g.st = "InTemplateInSelect" /\ n = "template" ->
                [st |-> "InTemplateInSelect", depth |-> g.depth + 1]
         [] OTHER -> g

TrackEndTag(g, lname) ==
    LET n == IF Len(lname) = 1 THEN lname[1] ELSE ""
    IN CASE g.st = "InSelect" /\ n = "select" -> GuardDefault
         [] g.st = "InTemplateInSelect" /\ n = "template" ->
                IF g.depth = 1 THEN [st |-> "InSelect", depth |-> 0]
                ELSE [st |-> "InTemplateInSelect", depth |-> g.depth - 1]
         [] OTHER -> g

(***************************************************************************)
(* Inputs                                                                  *)
(***************************************************************************)
MaxPieces == 4

RECURSIVE Concat(_)
Concat(ps) == IF ps = <<>> THEN <<>> ELSE Head(ps) \o Concat(Tail(ps))

StringsOf(pieces) ==
    {Concat(ps) : ps \in UNION {[1..n -> pieces] : n \in 0..MaxPieces}}

\* The inputs and the expected outputs of the crate's tests.
DivStyle == <<"<", "div", " ", "style", "=", DQ, "display:", " ", "block;", DQ, ">">>

SpanStyle == <<"<", "span", " ", "style", "=", DQ, "color:", " ", "black;", DQ, ">">>

AnchorImgRust(filtered) ==
    IF filtered
    THEN <<"<", "a", " ", "href", "=", DQ, "/", "test", DQ, ">",
           "<", "img", " ", "src", "=", DQ, "/", "logo.png", DQ, " ", "/", ">",
           "Rust", "<", "/", "a", ">", "<", "/", "span", ">", "<", "/", "div", ">">>
    ELSE <<"<", "a", " ", "href", "=", DQ, "/", "test", DQ, " ",
                "onclick", "=", DQ, "javascript:;", DQ, ">",
           "<", "img", " ", "src", "=", DQ, "/", "logo.png", DQ, " ",
                "onerror", "=", DQ, "javascript:;", DQ, "/", ">",
           "Rust", "<", "/", "a", ">", "<", "/", "span", ">", "<", "/", "div", ">">>

Comment1 == <<"<", "!", "-", "-", "Comment", " ", "1", "-", "-", ">">>

TestInput == DivStyle \o SpanStyle \o AnchorImgRust(FALSE)

TestOutput == <<"<", "div", ">">> \o SpanStyle \o AnchorImgRust(TRUE)

TestInputRemoveComments == DivStyle \o Comment1 \o SpanStyle \o AnchorImgRust(FALSE)

TestInputShowComments == DivStyle \o SpanStyle \o Comment1 \o AnchorImgRust(FALSE)

TestOutputShowComments == <<"<", "div", ">">> \o SpanStyle \o Comment1 \o AnchorImgRust(TRUE)

\* Inputs of the documented behaviour.
ScriptKeep == <<"<", "script", ">", "keep", "<", "/", "script", ">">>

WrappedBold == <<"<", "foo", ">", "<", "b", ">", "text", "<", "/", "b", ">", "<", "/", "foo", ">">>

CommentThenText == <<"<", "!", "-", "-", "x", "-", "-", ">", "a">>

DivBoldCrossed == <<"<", "div", ">", "<", "b", ">", "x", "<", "/", "div", ">", "<", "/", "b", ">">>

Examples == {TestInput, TestInputRemoveComments, TestInputShowComments,
             ScriptKeep, WrappedBold, CommentThenText, DivBoldCrossed}

\* Well-formed markup: allowed and disallowed elements, text, comments,
\* and the elements the ambiguity guard watches.
Pieces == {
    <<"<", "b", ">">>,
    <<"<", "/", "b", ">">>,
    <<"<", "foo", ">">>,
    <<"<", "/", "foo", ">">>,
    <<"<", "!", "-", "-", "c", "-", "-", ">">>,
    <<"t">>,
    <<"<", "select", ">">>,
    <<"<", "style", ">">>,
    <<"<", "/", "style", ">">>
}

SettingsSet == {
    DefaultSettings,
    [DefaultSettings EXCEPT !.remove_comments = FALSE]
}

\* One start tag built from attributes and stray characters.
AttrPieces == {
    <<" ", "href", "=", DQ, "u", DQ>>,
    <<" ", "onclick", "=", "j">>,
    <<" ", "HREF", "=", "v">>,
    <<" ", "title">>,
    <<"=">>,
    <<"/">>
}

AttrInputs ==
    {<<"<", n>> \o body \o <<">">> : n \in {"a", "A"}, body \in StringsOf(AttrPieces)}

\* Allow-lists written in upper case: an element name, an attribute name.
UpperNameSettings ==
    [allowed |-> <<AllowedElement(<<"A">>, << <<"href">>, <<"title">> >>),
                   AllowedElement(<<"div">>, <<>>)>>,
     remove_comments |-> TRUE]

UpperAttrSettings ==
    [allowed |-> <<AllowedElement(<<"a">>, << <<"HREF">>, <<"title">> >>),
                   AllowedElement(<<"div">>, <<>>)>>,
     remove_comments |-> TRUE]

AttrSettingsSet == {DefaultSettings, UpperNameSettings, UpperAttrSettings}

\* Characters that are text on their own and markup once joined.
TextPieces == {
    <<"<">>,
    <<">">>,
    <<"/">>,
    <<"&">>,
    <<"t">>,
    <<"b", ">">>,
    <<"foo", ">">>,
    <<"<", "foo", ">">>
}

(***************************************************************************)
(* The run of purifier(input, settings)                                    *)
(***************************************************************************)
InitWith(inputs, settingsSet) ==
    /\ settings \in settingsSet
    /\ input \in inputs
    /\ pos = 1
    /\ output = <<>>
    /\ stack = <<>>
    /\ text_type = "Data"
    /\ guard = GuardDefault
    /\ pc = "run"
    /\ pass = 1
    /\ first = <<>>
    /\ log = <<>>

Init == InitWith(StringsOf(Pieces) \cup Examples, SettingsSet)

InitAttrs == InitWith(AttrInputs \cup Examples, AttrSettingsSet)

InitText == InitWith(StringsOf(TextPieces) \cup Examples, {DefaultSettings})

Lex == NextLexeme(input, pos, text_type)

Running == pc = "run" /\ pos <= Len(input)

Entry(lex, out, allowed, kept, popped, handled) ==
    [kind |-> lex.kind, name |-> LowerName(lex.name), raw |-> lex.raw, out |-> out,
     attrs |-> lex.attrs, kept |-> kept, allowed |-> allowed,
     stack_before |-> stack, popped |-> popped, handled |-> handled]

StartTagStep(lex, lname, el, out) ==
    IF Ambiguous(guard, lname)
    THEN /\ pc' = "panic"
         /\ UNCHANGED <<pos, output, stack, text_type, guard, log>>
    ELSE /\ pc' = pc
         /\ pos' = lex.end
         /\ output' = output \o out
         /\ stack' = IF IsVoid(lname) THEN stack
                     ELSE Append(stack, [local_name |-> lname,
                                         end_tag_handler |-> el.removed,
                                         remove_content |-> el.remove_content])
         /\ text_type' = TextTypeFor(lname)
         /\ guard' = TrackStartTag(guard, lname)
         /\ log' = Append(log, Entry(lex, out, ~el.removed, el.attrs, <<>>, TRUE))

\* A start tag: the tree builder simulator's feedback (rewrite_str returns
\* Err on an ambiguity and unwrap panics), then element!("*", element_handler).
HandleStartTag ==
    /\ Running
    /\ \E lex \in {Lex} :
        /\ lex.kind = "StartTag"
        /\ \E el \in {element_handler(settings, lex)} :
            StartTagStep(lex, LowerName(lex.name), el,
                         IF el.removed \/ RemovedContent(stack) THEN <<>>
                         ELSE StartTagOutput(lex, el.attrs))
    /\ UNCHANGED <<settings, input, pass, first>>

EndTagStep(lex, lname, popped, rest, removed) ==
    /\ pos' = lex.end
    /\ output' = output \o (IF removed THEN <<>> ELSE lex.raw)
    /\ stack' = rest
    /\ text_type' = "Data"
    /\ guard' = TrackEndTag(guard, lname)
    /\ log' = Append(log, Entry(lex, IF removed THEN <<>> ELSE lex.raw,
                                find(settings.allowed, lname) # 0,
                                <<>>, popped, EndTagRemoved(popped)))

\* An end tag: the open elements up to the topmost one of its name are
\* popped and the end tag handlers they left run on it.
HandleEndTag ==
    /\ Running
    /\ \E lex \in {Lex} :
        /\ lex.kind = "EndTag"
        /\ \E k \in {MatchIndex(stack, LowerName(lex.name))} :
           \E popped \in {IF k = 0 THEN <<>> ELSE SubSeq(stack, k, Len(stack))} :
           \E rest \in {IF k = 0 THEN stack ELSE SubSeq(stack, 1, k - 1)} :
              EndTagStep(lex, LowerName(lex.name), popped, rest,
                         EndTagRemoved(popped) \/ RemovedContent(rest))
    /\ UNCHANGED <<settings, input, pc, pass, first>>

\* Text (and bytes that form no token): no handler is registered for it.
HandleText ==
    /\ Running
    /\ \E lex \in {Lex} :
        /\ lex.kind = "Text"
        /\ \E out \in {IF RemovedContent(stack) THEN <<>> ELSE lex.raw} :
            /\ pos' = lex.end
            /\ output' = output \o out
            /\ log' = Append(log, Entry(lex, out, FALSE, <<>>, <<>>, FALSE))
    /\ UNCHANGED <<settings, input, stack, text_type, guard, pc, pass, first>>

\* A comment: comments!("*", comment_handler) runs on the comments inside
\* an open element.
HandleComment ==
    /\ Running
    /\ \E lex \in {Lex} :
        /\ lex.kind = "Comment"
        /\ \E out \in {IF (stack # <<>> /\ comment_handler(settings)) \/ RemovedContent(stack)
                       THEN <<>> ELSE lex.raw} :
            /\ pos' = lex.end
            /\ output' = output \o out
            /\ log' = Append(log, Entry(lex, out, FALSE, <<>>, <<>>, stack # <<>>))
    /\ UNCHANGED <<settings, input, stack, text_type, guard, pc, pass, first>>

\* The end of the input: rewrite_str returns Ok(output), purifier returns it.
Finish ==
    /\ pc = "run"
    /\ pos > Len(input)
    /\ pc' = "done"
    /\ first' = IF pass = 1 THEN output ELSE first
    /\ UNCHANGED <<settings, input, pos, output, stack, text_type, guard, pass, log>>

\* purifier is called again on its own result, with the same settings.
Repurify ==
    /\ pc = "done"
    /\ pass = 1
    /\ input' = output
    /\ pos' = 1
    /\ output' = <<>>
    /\ stack' = <<>>
    /\ text_type' = "Data"
    /\ guard' = GuardDefault
    /\ pc' = "run"
    /\ pass' = 2
    /\ log' = <<>>
    /\ UNCHANGED <<settings, first>>

Next ==
    \/ HandleStartTag
    \/ HandleEndTag
    \/ HandleText
    \/ HandleComment
    \/ Finish
    \/ Repurify

Spec == Init /\ [][Next]_vars

SpecAttrs == InitAttrs /\ [][Next]_vars

SpecText == InitText /\ [][Next]_vars

(***************************************************************************)
(* Properties                                                              *)
(***************************************************************************)
Handled == 1..Len(log)

IsTag(e) == e.kind \in {"StartTag", "EndTag"}

Emitted(e) == e.out # <<>>

Returned == pc = "done" /\ pass = 1

\* The names and values of a list of attributes.
NamesValues(attrs) ==
    [i \in 1..Len(attrs) |-> <<LowerName(attrs[i].name), attrs[i].value>>]

\* The attributes of e whose lowercase name the list A holds, in e's order.
Listed(attrs, A) == SelectSeq(attrs, LAMBDA a : Contains(A, LowerName(a.name)))

AllowList(e) == settings.allowed[find(settings.allowed, e.name)].attributes

\* C1: every start tag and every end tag the purifier emits has the name of
\* some AllowedElement of the settings.
C1_OnlyAllowedTagsEmitted ==
    \A i \in Handled :
        (IsTag(log[i]) /\ Emitted(log[i])) =>
            \E k \in 1..Len(settings.allowed) : settings.allowed[k].name = log[i].name

\* C2: the start tag emitted for an allowed element carries exactly the
\* input's attributes that its allow-list names, in the input's order and
\* with their values; read back, the emitted tag shows these attributes and
\* no other.  The crate's test test_purifier gives the expected output.
C2_AttributesFiltered ==
    /\ \A i \in Handled :
        (log[i].kind = "StartTag" /\ log[i].allowed) =>
            /\ log[i].kept = Listed(log[i].attrs, AllowList(log[i]))
            /\ Emitted(log[i])
            /\ \E t \in {DataLexeme(log[i].out, 1)} :
                /\ t.kind = "StartTag"
                /\ t.end = Len(log[i].out) + 1
                /\ LowerName(t.name) = log[i].name
                /\ NamesValues(t.attrs) = NamesValues(Listed(log[i].attrs, AllowList(log[i])))
    /\ (Returned /\ input = TestInput /\ settings = DefaultSettings) => output = TestOutput

C2_Witness ==
    \E i \in Handled :
        /\ log[i].kind = "StartTag"
        /\ log[i].allowed
        /\ Len(log[i].kept) >= 2
        /\ Len(log[i].kept) < Len(log[i].attrs)
        /\ \E j \in 1..Len(log[i].attrs) : log[i].attrs[j].name # LowerName(log[i].attrs[j].name)

HasUnwrapped(stk) == \E j \in 1..Len(stk) : stk[j].end_tag_handler

C4_CommentPolicy ==
    /\ DefaultSettings.remove_comments
    /\ \A i \in Handled :
        log[i].kind = "Comment" =>
            log[i].out = IF settings.remove_comments THEN <<>> ELSE log[i].raw
    /\ (Returned /\ input = CommentThenText /\ settings.remove_comments) => output = <<"a">>
    /\ (Returned /\ input = TestInputRemoveComments /\ settings = DefaultSettings)
            => output = TestOutput
    /\ (Returned /\ input = TestInputShowComments /\ ~settings.remove_comments)
            => output = TestOutputShowComments

\* C5: purifier(purifier(x, S), S) = purifier(x, S).
C5_Idempotent ==
    (pass = 2 /\ pc # "run") => (pc = "done" /\ output = first)

\* C6: the call always returns a string and never panics; the empty input
\* gives the empty string.
C6_NeverPanics ==
    /\ pc # "panic"
    /\ (Returned /\ input = <<>>) => output = <<>>

\* C7 as claimed: a tag is kept iff its name equals, ignoring case, the name
\* of some AllowedElement, and an attribute of a kept tag is kept iff its
\* name equals, ignoring case, an entry of that element's attributes.
SameIgnoringCase(a, b) == LowerName(a) = LowerName(b)

C7_CaseInsensitiveBothSides ==
    \A i \in Handled :
        log[i].kind = "StartTag" =>
            /\ Emitted(log[i]) <=>
                   \E k \in 1..Len(settings.allowed) :
                       SameIgnoringCase(settings.allowed[k].name, log[i].name)
            /\ Emitted(log[i]) =>
                   \A j \in 1..Len(log[i].attrs) :
                       Contains(log[i].kept, log[i].attrs[j]) <=>
                           \E k \in 1..Len(AllowList(log[i])) :
                               SameIgnoringCase(AllowList(log[i])[k], log[i].attrs[j].name)

\* C7 as the code has it: the input's names are taken in lower case and the
\* allow-list's entries are compared as written.  A tag is kept iff its
\* lowercase name is the name of some AllowedElement, and an attribute of a
\* kept tag is kept iff its lowercase name is an entry of the first such
\* element's attributes.
C7_LowercaseInputExactList ==
    \A i \in Handled :
        log[i].kind = "StartTag" =>
            /\ log[i].name = LowerName(DataLexeme(log[i].raw, 1).name)
            /\ Emitted(log[i]) <=>
                   \E k \in 1..Len(settings.allowed) : settings.allowed[k].name = log[i].name
            /\ Emitted(log[i]) =>
                   \A j \in 1..Len(log[i].attrs) :
                       Contains(log[i].kept, log[i].attrs[j]) <=>
                           Contains(AllowList(log[i]), LowerName(log[i].attrs[j].name))

\* An <A ..> tag kept under an allow-list that names "a" and "HREF": its
\* HREF attribute is dropped.
C7_Witness ==
    /\ settings = UpperAttrSettings
    /\ \E i \in Handled :
        /\ log[i].kind = "StartTag"
        /\ log[i].raw[2] = "A"
        /\ Emitted(log[i])
        /\ \E j \in 1..Len(log[i].attrs) :
              /\ log[i].attrs[j].name = <<"HREF">>
              /\ ~Contains(log[i].kept, log[i].attrs[j])

\* C8: an end tag whose name no open element has is dropped and closes
\* nothing; <div><b>x</div></b> loses its trailing </b>.
C8_StrayEndTagDropped ==
    /\ \A i \in Handled :
        (log[i].kind = "EndTag" /\ MatchIndex(log[i].stack_before, log[i].name) = 0) =>
            /\ ~Emitted(log[i])
            /\ log[i].popped = <<>>
    /\ (Returned /\ input = DivBoldCrossed)
            => output = <<"<", "div", ">", "<", "b", ">", "x", "<", "/", "div", ">">>

EmittedTags(kind, name) ==
    {i \in Handled : log[i].kind = kind /\ log[i].name = name /\ Emitted(log[i])}

\* C9: an end tag that closes an open element is emitted iff that element's
\* start tag was allowed, whatever else it closes on the way; the output
\* never holds more end tags of a name than start tags of that name.
C9_EndTagEchoesStartTag ==
    \A i \in Handled :
        log[i].kind = "EndTag" =>
            /\ log[i].popped # <<>> =>
                   (Emitted(log[i]) <=> ~log[i].popped[1].end_tag_handler)
            /\ Cardinality(EmittedTags("EndTag", log[i].name))
                   <= Cardinality(EmittedTags("StartTag", log[i].name))

\* C10: every text token is emitted, with its "<", ">" and "&" escaped.
EscapedText(t) ==
    \A j \in 1..Len(t) :
        /\ t[j] \notin {"<", ">"}
        /\ t[j] = "&" => At(t, j + 1) \in {"amp;", "lt;", "gt;"}

C10_TextEmittedEscaped ==
    \A i \in Handled :
        log[i].kind = "Text" => (Emitted(log[i]) /\ EscapedText(log[i].out))

====
